---- MODULE Spec2Model ----
(***************************************************************************)
(* Model of the knowledge pipeline of teams-chatbot:                       *)
(*   - ConnectorInterface.run_pipeline   (connectors/connector_interface.py)*)
(*   - process_connector_data (ingest)   (process_and_embed.py)            *)
(*   - query_collection, format_context, main loop   (query_brain.py)      *)
(* The vector store (ChromaDB), the embedding call and the generation call *)
(* are external: their results and failures are inputs of the actions.     *)
(***************************************************************************)
EXTENDS Integers, Sequences, FiniteSets, TLC

VARIABLES
    registry,   \* names of the collections the store lists (list_collections)
    store,      \* collection name -> sequence of stored entries, insertion order
    ingests,    \* number of process_connector_data calls made so far
    loaded,     \* connectors process_and_embed.main has processed in its run
    ing,        \* record of process_connector_data, when it was the last operation
    asked,      \* number of questions read by query_brain.main so far
    i,          \* loop counter of query_brain.main (answers produced)
    session,    \* "running" | "returned" | "crashed" : state of query_brain.main
    q,          \* record of the loop iteration of query_brain.main, when it
                \* was the last operation
    call,       \* record of one call of a connector method on its own
    objects,    \* the Drive and the Slack connector object: their fields, and
                \* what their most recent authenticate call gave back
    config,     \* ConfigManager.config["connectors"]: name -> settings
    config_file \* "current" when config.json holds config, "stale" when the
                \* last _save_config failed

vars == <<registry, store, ingests, loaded, ing, asked, i, session, q, call,
          objects, config, config_file>>

----------------------------------------------------------------------------
(* Bounds of the model *)

MaxDocs == 2        \* largest max_results a connector is asked for
MaxIngests == 2     \* process_connector_data calls explored
MaxQuestions == 2   \* questions explored

(* Program constants *)

DEFAULT_N_RESULTS == 3
LoopLimit == 5

----------------------------------------------------------------------------
(* Python values: a type tag and the text of the value.  A dict value also *)
(* carries its mapping in field d.                                         *)

S(x) == [t |-> "str", v |-> x]
N(x) == [t |-> "int", v |-> x]
L(x) == [t |-> "list", v |-> x]
D(m) == [t |-> "dict", v |-> "{...}", d |-> m]

\* isinstance(v, (str, int, float, bool))
IsScalar(val) == val.t \in {"str", "int", "float", "bool"}

\* dict.get(k, default)
Get(item, k, default) == IF k \in DOMAIN item THEN item[k] ELSE default

\* str.lower() on the strings that occur as source tags and source names
Lower(s) ==
    CASE s = "GitHub" -> "github"
      [] s = "Github" -> "github"
      [] s = "Google Drive" -> "google drive"
      [] s = "Foo" -> "foo"
      [] s = "Jira" -> "jira"
      [] OTHER -> s

Min(a, b) == IF a < b THEN a ELSE b

RECURSIVE SeqToSet(_)
SeqToSet(s) == IF s = <<>> THEN {} ELSE {Head(s)} \cup SeqToSet(Tail(s))

----------------------------------------------------------------------------
(* Documents returned by connectors (the output shape of process_data).    *)

\* GitHubConnector.process_data shape: nested "metadata" is a dict
GH1 == [id |-> S("gh-1"), source |-> S("github"), source_type |-> S("issue"),
        title |-> S("#1 - Bug fix"), url |-> S("https://github.com/o/r/issues/1"),
        content |-> S("Fixes crash on startup"),
        metadata |-> D([type |-> S("issue"), repository |-> S("")])]

\* the same issue after it was edited upstream
GH1m == [id |-> S("gh-1"), source |-> S("github"), source_type |-> S("issue"),
         title |-> S("#1 - Bug fix"), url |-> S("https://github.com/o/r/issues/1"),
         content |-> S("Fixes crash on startup and shutdown"),
         metadata |-> D([type |-> S("issue"), repository |-> S("")])]

\* a repository record: the tag is spelled with capitals, content is empty
GH2 == [id |-> S("gh-2"), source |-> S("GitHub"), source_type |-> S("repository"),
        title |-> S("o/r"), url |-> S("https://github.com/o/r"),
        content |-> S(""),
        metadata |-> D([type |-> S("repository"), repository |-> S("o")])]

\* DriveConnector.process_data shape, with no extracted text
DR1 == [id |-> S("drive_1"), source |-> S("Google Drive"), title |-> S("Plan"),
        owner |-> S("Ann"), created |-> S(""), type |-> S("application/pdf"),
        message |-> S("")]

\* SlackConnector.process_data shape: no source tag
SL1 == [id |-> S("slack_1_0"), sender |-> S("Bob"), timestamp |-> S("2024-01-01T00:00:00"),
        channel |-> S("general"), message |-> S("")]

\* a record with neither id, source tag nor text, and a list-valued field
NOID == [tags |-> L("['a', 'b']"), rank |-> N("7")]

\* a titled record with no id
DOC == [title |-> S("Notes"), message |-> S("hello")]

\* a record whose source tag is not a string
BAD == [id |-> S("bad-1"), source |-> N("7"), message |-> S("x")]

\* the Document of end-to-end scenario A, with the field names of the
\* Document schema
DOC_A == [id |-> S("gh-1"), source |-> S("github"), title |-> S("Bug fix"),
          body |-> S("Fixes crash on startup")]

Connectors == {"github_a", "github_b", "drive", "misc"}

\* a connector whose normalize step returns the Document of scenario A
ScenarioConnectors == {"scenario_a"}

\* the normalized Document of each raw record
Normalized ==
    [r_gh1 |-> GH1, r_gh1m |-> GH1m, r_gh2 |-> GH2, r_dr1 |-> DR1,
     r_sl1 |-> SL1, r_noid |-> NOID, r_doc |-> DOC, r_bad |-> BAD, r_a |-> DOC_A]

\* the raw records each connector's source holds, in the order it lists them
RawData ==
    [github_a |-> <<"r_gh1", "r_gh2", "r_dr1">>,
     github_b |-> <<"r_gh1m", "r_gh1", "r_gh2">>,
     drive    |-> <<"r_dr1", "r_sl1", "r_doc">>,
     misc     |-> <<"r_noid", "r_doc", "r_bad">>,
     scenario_a |-> <<"r_a">>]

\* collection each connector is ingested into (process_and_embed.main)
TargetOf ==
    [github_a |-> "github_knowledge",
     github_b |-> "github_knowledge",
     drive    |-> "drive_documents_knowledge",
     misc     |-> "foo",
     scenario_a |-> "github_knowledge"]

Collections == {"github_knowledge", "drive_documents_knowledge", "foo"}

----------------------------------------------------------------------------
(* ConnectorInterface *)

\* fetch_data(**kwargs): up to max raw records of the connector's source
FetchData(conn, max) == SubSeq(RawData[conn], 1, Min(max, Len(RawData[conn])))

\* process_data(data): one Document per raw record, in order
ProcessData(conn, data) == [k \in 1..Len(data) |-> Normalized[data[k]]]

\* Faults an ingest can meet, at most one per call:
\*   create      get_or_create_collection raises
\*   auth_false  authenticate returns False
\*   auth_raise  authenticate raises
\*   fetch       fetch_data raises
\*   process     process_data raises
\*   add         collection.add raises (embedding or store error)
Faults == {"none", "create", "auth_false", "auth_raise", "fetch", "process", "add"}

\* a mutated pipeline that goes on after authenticate returned False
RunPipelineIgnoreAuth(conn, max, fault) ==
    IF fault = "auth_raise"
    THEN [calls |-> <<"authenticate">>, raised |-> TRUE, value |-> <<>>]
    ELSE IF fault = "fetch"
    THEN [calls |-> <<"authenticate", "fetch_data">>, raised |-> TRUE, value |-> <<>>]
    ELSE IF fault = "process"
    THEN [calls |-> <<"authenticate", "fetch_data", "process_data">>,
          raised |-> TRUE, value |-> <<>>]
    ELSE [calls |-> <<"authenticate", "fetch_data", "process_data">>,
          raised |-> FALSE,
          value |-> ProcessData(conn, FetchData(conn, max))]

\* a mutated pipeline that fetches before it authenticates
RunPipelineFetchFirst(conn, max, fault) ==
    IF fault = "fetch"
    THEN [calls |-> <<"fetch_data">>, raised |-> TRUE, value |-> <<>>]
    ELSE IF fault \in {"auth_false", "auth_raise"}
    THEN [calls |-> <<"fetch_data", "authenticate">>, raised |-> TRUE, value |-> <<>>]
    ELSE IF fault = "process"
    THEN [calls |-> <<"fetch_data", "authenticate", "process_data">>,
          raised |-> TRUE, value |-> <<>>]
    ELSE [calls |-> <<"fetch_data", "authenticate", "process_data">>,
          raised |-> FALSE,
          value |-> ProcessData(conn, FetchData(conn, max))]

\* run_pipeline(**kwargs): the calls made in order, whether it raised, and
\* the value returned
RunPipeline(conn, max, fault) ==
    IF fault = "auth_raise"
    THEN [calls |-> <<"authenticate">>, raised |-> TRUE, value |-> <<>>]
    ELSE IF fault = "auth_false"
    THEN \* raise Exception("Authentication failed for ...")
         [calls |-> <<"authenticate">>, raised |-> TRUE, value |-> <<>>]
    ELSE IF fault = "fetch"
    THEN [calls |-> <<"authenticate", "fetch_data">>, raised |-> TRUE, value |-> <<>>]
    ELSE IF fault = "process"
    THEN [calls |-> <<"authenticate", "fetch_data", "process_data">>,
          raised |-> TRUE, value |-> <<>>]
    ELSE [calls |-> <<"authenticate", "fetch_data", "process_data">>,
          raised |-> FALSE,
          value |-> ProcessData(conn, FetchData(conn, max))]

----------------------------------------------------------------------------
(* process_connector_data: formatting of one item *)

\* str(item.get("id", f"{collection_name}_{idx}")), idx counted from 0
ItemId(item, collection_name, idx) ==
    IF "id" \in DOMAIN item THEN item["id"].v
    ELSE collection_name \o "_" \o ToString(idx)

\* item.get("source", "").lower()
SourceTag(item) == Lower(Get(item, "source", S("")).v)

\* whether formatting the item raises: .lower() of a source tag that is not
\* a string, or .get() on a "metadata" value that is not a dict
FormatRaises(item) ==
    \/ Get(item, "source", S("")).t # "str"
    \/ /\ SourceTag(item) = "github"
       /\ "metadata" \in DOMAIN item
       /\ item["metadata"].t # "dict"

\* the item without its id (argument of json.dumps in the fallback branch)
WithoutId(item) == [k \in (DOMAIN item) \ {"id"} |-> item[k]]

\* the display text: which template, and the values it is filled with
FormatDocument(item) ==
    IF SourceTag(item) = "github"
    THEN [tmpl |-> "github",
          repo |-> Get(Get(item, "metadata", D(<<>>)).d, "repository", S("")),
          title |-> Get(item, "title", S("")),
          url |-> Get(item, "url", S("")),
          content |-> Get(item, "content", S(""))]
    ELSE IF SourceTag(item) = "google drive"
    THEN [tmpl |-> "google drive",
          title |-> Get(item, "title", S("Untitled")),
          owner |-> Get(item, "owner", S("Unknown")),
          file_type |-> Get(item, "type", S("unknown")),
          created |-> Get(item, "created", S("Unknown date")),
          content |-> Get(item, "message", S("[No text extracted]"))]
    ELSE IF "message" \in DOMAIN item /\ "sender" \in DOMAIN item
    THEN [tmpl |-> "message",
          sender |-> Get(item, "sender", S("Unknown")),
          channel |-> Get(item, "channel", S("Unknown")),
          message |-> item["message"]]
    ELSE IF "title" \in DOMAIN item /\ "message" \in DOMAIN item
    THEN [tmpl |-> "titled",
          title |-> item["title"],
          owner |-> Get(item, "owner", S("Unknown")),
          content |-> item["message"]]
    ELSE [tmpl |-> "json", fields |-> WithoutId(item)]

\* a mutated metadata cleanup that keeps every field
FormatMetaKeepAll(item) ==
    [k \in (DOMAIN item) \cup {"source"} |->
        IF k = "source" THEN S(SourceTag(item)) ELSE item[k]]

\* meta = {k: v for scalar v}; meta["source"] = source
FormatMeta(item) ==
    [k \in {f \in DOMAIN item : IsScalar(item[f])} \cup {"source"} |->
        IF k = "source" THEN S(SourceTag(item)) ELSE item[k]]

\* the (id, document, metadata) triple of the item at 0-based index idx
FormatEntry(item, collection_name, idx) ==
    [id |-> ItemId(item, collection_name, idx),
     document |-> FormatDocument(item),
     metadata |-> FormatMeta(item)]

\* the 1-based position of the first item whose formatting raises, 0 if none
RECURSIVE FirstBad(_, _)
FirstBad(items, k) ==
    IF k > Len(items) THEN 0
    ELSE IF FormatRaises(items[k]) THEN k
    ELSE FirstBad(items, k + 1)

----------------------------------------------------------------------------
(* The vector store's write *)

Ids(entries) == {entries[k].id : k \in 1..Len(entries)}

HasDuplicateIds(entries) ==
    \E a, b \in 1..Len(entries) : a < b /\ entries[a].id = entries[b].id

RECURSIVE SkipExisting(_, _)
SkipExisting(entries, ids) ==
    IF entries = <<>> THEN <<>>
    ELSE IF Head(entries).id \in ids THEN SkipExisting(Tail(entries), ids)
    ELSE <<Head(entries)>> \o SkipExisting(Tail(entries), ids)

\* How collection.add treats an id the collection already holds depends on
\* the installed store release: it raises ("reject") or it keeps the stored
\* entry and skips the new one ("ignore").  It never overwrites.
AddModes == {"reject", "ignore"}

\* collection.add(ids, documents, metadatas) on a collection holding
\* `existing`: whether it raises, and the entries held afterwards
CollectionAdd(existing, entries, mode, fault) ==
    IF fault = "add" \/ HasDuplicateIds(entries)
    THEN [raised |-> TRUE, entries |-> existing]
    ELSE IF mode = "reject" /\ Ids(entries) \cap Ids(existing) # {}
    THEN [raised |-> TRUE, entries |-> existing]
    ELSE [raised |-> FALSE,
          entries |-> existing \o SkipExisting(entries, Ids(existing))]

----------------------------------------------------------------------------
(* process_connector_data *)

Rep(x, n) == [k \in 1..n |-> x]

\* a mutated guard that writes even an empty batch
ShouldAddAlways(ids) == TRUE

\* `if ids:` before collection.add
ShouldAdd(ids) == ids # <<>>

\* The result of one call: the registry and store afterwards, the external
\* calls made in order, the Documents the connector returned (batch), how
\* many of them were formatted, the triples handed to collection.add
\* (submitted), the count returned (result), and whether an exception left
\* the function instead of a return (propagated).
ProcessConnectorData(conn, collection_name, max, fault, mode, reg, st) ==
    LET run == RunPipeline(conn, max, fault)
        items == run.value
        bad == FirstBad(items, 1)
        entries == [k \in 1..Len(items) |->
                       FormatEntry(items[k], collection_name, k - 1)]
        added == CollectionAdd(st[collection_name], entries, mode, fault)
        reg1 == reg \cup {collection_name}
        pre == <<"get_or_create_collection">> \o run.calls
        base == [registry |-> reg1, store |-> st, calls |-> pre,
                 propagated |-> FALSE, result |-> 0, ran |-> ~run.raised,
                 batch |-> items, formatted |-> 0, submitted |-> <<>>,
                 collection |-> collection_name, fault |-> fault,
                 conn |-> conn, max |-> max]
    IN  IF fault = "create"
        THEN \* get_or_create_collection is outside the try block
             [base EXCEPT !.registry = reg,
                          !.calls = <<"get_or_create_collection">>,
                          !.propagated = TRUE, !.ran = FALSE, !.batch = <<>>]
        ELSE IF run.raised
        THEN base
        ELSE IF bad # 0
        THEN [base EXCEPT !.calls = pre \o Rep("format", bad),
                          !.formatted = bad - 1]
        ELSE IF ~ShouldAdd(entries)
        THEN [base EXCEPT !.formatted = Len(items)]
        ELSE IF added.raised
        THEN [base EXCEPT !.calls = pre \o Rep("format", Len(items)) \o <<"add">>,
                          !.formatted = Len(items), !.submitted = entries]
        ELSE [base EXCEPT !.calls = pre \o Rep("format", Len(items)) \o <<"add">>,
                          !.formatted = Len(items), !.submitted = entries,
                          !.store = [st EXCEPT ![collection_name] = added.entries],
                          !.result = Len(entries)]

----------------------------------------------------------------------------
(* query_brain: the store's read side *)

\* order in which list_collections lists the collections it holds
CollectionOrder == <<"drive_documents_knowledge", "foo", "github_knowledge">>

InRegistry(reg) == [c \in Collections |-> c \in reg]

RECURSIVE Keep(_, _)
Keep(seq, member) ==
    IF seq = <<>> THEN <<>>
    ELSE IF member[Head(seq)] THEN <<Head(seq)>> \o Keep(Tail(seq), member)
    ELSE Keep(Tail(seq), member)

\* [c.name for c in get_available_collections()]
GetAvailableCollections(reg) == Keep(CollectionOrder, InRegistry(reg))

\* embeddings the embedding call can return for the question
Vectors == {"v1", "v2"}

Reverse(seq) == [k \in 1..Len(seq) |-> seq[Len(seq) + 1 - k]]

\* collection.query(...): the n_results nearest entries, nearest first.
\* Nearness depends on the query embedding: v1 ranks the entries in
\* insertion order, v2 in the opposite order.
Hits(entries, embedding, n_results) ==
    LET ranked == IF embedding = "v1" THEN entries ELSE Reverse(entries)
    IN  SubSeq(ranked, 1, Min(n_results, Len(ranked)))

\* query_collection: the hits, or no hits when get_collection raises (the
\* store lists no such collection) or the query raises
QueryCollection(collection_name, embedding, n_results, failing, reg, st) ==
    IF collection_name \notin reg \/ collection_name \in failing
    THEN <<>>
    ELSE Hits(st[collection_name], embedding, n_results)

----------------------------------------------------------------------------
(* query_brain.format_context *)

\* str(meta.get(k, default))
MetaGet(meta, k, default) == IF k \in DOMAIN meta THEN meta[k].v ELSE default

\* text.split(sep)[0] on the titles and summaries that occur
FirstPart(text, sep) ==
    CASE text = "#1 - Bug fix" /\ sep = " - " -> "#1"
      [] OTHER -> text

\* type.replace('_', ' ').title()
TypeTitle(text) ==
    CASE text = "issue" -> "Issue"
      [] text = "pull_request" -> "Pull Request"
      [] OTHER -> text

\* collection_name.replace("_knowledge", "").title()
SourceType(collection_name) ==
    CASE collection_name = "foo" -> "Foo"
      [] collection_name = "github_knowledge" -> "Github"
      [] collection_name = "drive_documents_knowledge" -> "Drive_Documents"
      [] OTHER -> collection_name

\* the context block of one hit
ContextBlock(hit, collection_name) ==
    LET meta == hit.metadata
        doc == hit.document
    IN  IF collection_name = "teams_chat_knowledge"
        THEN [src |-> "Teams Channel", a |-> MetaGet(meta, "channel", "Unknown"),
              b |-> MetaGet(meta, "sender", "Unknown"), content |-> doc]
        ELSE IF collection_name = "jira_tickets_knowledge"
        THEN [src |-> "Jira Ticket", a |-> MetaGet(meta, "key", "Unknown"),
              b |-> MetaGet(meta, "status", "Unknown"), content |-> doc]
        ELSE IF collection_name = "slack_messages_knowledge"
        THEN [src |-> "Slack Channel", a |-> MetaGet(meta, "channel", "Unknown"),
              b |-> MetaGet(meta, "sender", "Unknown"), content |-> doc]
        ELSE IF collection_name = "drive_documents_knowledge"
        THEN [src |-> "Google Drive Document", a |-> MetaGet(meta, "title", "Unknown"),
              b |-> MetaGet(meta, "owner", "Unknown"), content |-> doc]
        ELSE IF collection_name = "github_knowledge"
        THEN IF "type" \in DOMAIN meta /\ meta["type"].v \in {"issue", "pull_request"}
             THEN [src |-> "GitHub " \o TypeTitle(meta["type"].v),
                   a |-> MetaGet(meta, "title", "Unknown"), b |-> "", content |-> doc]
             ELSE [src |-> "GitHub Repository Item", a |-> "", b |-> "", content |-> doc]
        ELSE [src |-> SourceType(collection_name), a |-> "", b |-> "", content |-> doc]

\* a citation that prints no metadata mapping
NoMeta == [k \in {} |-> S("")]

\* the citation of one hit: its fixed words (src), the values it prints
\* (a, b), and the metadata mapping where it prints one (m)
Citation(hit, collection_name) ==
    LET meta == hit.metadata
    IN  IF collection_name = "teams_chat_knowledge"
        THEN [src |-> "Teams", a |-> MetaGet(meta, "channel", "Unknown"),
              b |-> MetaGet(meta, "sender", "Unknown"), m |-> NoMeta]
        ELSE IF collection_name = "jira_tickets_knowledge"
        THEN [src |-> "Jira", a |-> MetaGet(meta, "key", "Unknown"),
              b |-> IF MetaGet(meta, "summary", "") # ""
                    THEN FirstPart(MetaGet(meta, "summary", ""), ".")
                    ELSE "Unknown",
              m |-> NoMeta]
        ELSE IF collection_name = "slack_messages_knowledge"
        THEN [src |-> "Slack", a |-> MetaGet(meta, "channel", "Unknown"),
              b |-> MetaGet(meta, "sender", "Unknown"), m |-> NoMeta]
        ELSE IF collection_name = "drive_documents_knowledge"
        THEN [src |-> "Drive", a |-> MetaGet(meta, "title", "Unknown"),
              b |-> MetaGet(meta, "owner", "Unknown"), m |-> NoMeta]
        ELSE IF collection_name = "github_knowledge"
        THEN IF "type" \in DOMAIN meta /\ meta["type"].v \in {"issue", "pull_request"}
             THEN [src |-> "GitHub", a |-> TypeTitle(meta["type"].v),
                   b |-> IF MetaGet(meta, "title", "") # ""
                         THEN FirstPart(MetaGet(meta, "title", "Unknown"), " - ")
                         ELSE "Unknown",
                   m |-> NoMeta]
             ELSE \* f"GitHub: {meta}" prints the whole metadata mapping
                  [src |-> "GitHub", a |-> "", b |-> "", m |-> meta]
        ELSE [src |-> SourceType(collection_name),
              a |-> MetaGet(meta, "id", "Unknown"), b |-> "", m |-> NoMeta]

\* a mutated format_context that lists the hits of a collection last first
FormatContextReversed(hits, collection_name) ==
    [context |-> [k \in 1..Len(hits) |->
                     ContextBlock(hits[Len(hits) + 1 - k], collection_name)],
     sources |-> [k \in 1..Len(hits) |->
                     Citation(hits[Len(hits) + 1 - k], collection_name)]]

\* format_context(results, collection_name): one block and one citation per
\* hit, in hit order
FormatContext(hits, collection_name) ==
    [context |-> [k \in 1..Len(hits) |-> ContextBlock(hits[k], collection_name)],
     sources |-> [k \in 1..Len(hits) |-> Citation(hits[k], collection_name)]]

----------------------------------------------------------------------------
(* query_brain.main: one iteration of the loop *)

\* lines the user can type at the sources prompt
SourcesInputs ==
    {"", "foo github_knowledge", "Jira bar", "drive github", "github GitHub"}

\* sources_input.split() if sources_input else []
Split(line) ==
    CASE line = "" -> <<>>
      [] line = "foo github_knowledge" -> <<"foo", "github_knowledge">>
      [] line = "Jira bar" -> <<"Jira", "bar">>
      [] line = "drive github" -> <<"drive", "github">>
      [] line = "github GitHub" -> <<"github", "GitHub">>

\* lines the user can type at the number-of-results prompt
NResultsInputs == {"", "1"}

\* str.isdigit()
IsDigit(line) == line = "1"

\* int(line) for a line of digits
ToInt(line) == IF line = "1" THEN 1 ELSE 0

\* n_results after the isdigit check (an invalid line becomes the default)
NResults(line) == IF IsDigit(line) THEN ToInt(line) ELSE DEFAULT_N_RESULTS

valid_sources == <<"teams", "jira", "slack", "drive", "github">>

\* source_map.get(s, s)
SourceMapGet(s) ==
    CASE s = "teams" -> "teams_chat_knowledge"
      [] s = "jira" -> "jira_tickets_knowledge"
      [] s = "slack" -> "slack_messages_knowledge"
      [] s = "drive" -> "drive_documents_knowledge"
      [] s = "github" -> "github_knowledge"
      [] OTHER -> s

RECURSIVE SelectNotIn(_, _)
SelectNotIn(seq, set) ==
    IF seq = <<>> THEN <<>>
    ELSE IF Head(seq) \in set THEN SelectNotIn(Tail(seq), set)
    ELSE <<Head(seq)>> \o SelectNotIn(Tail(seq), set)

RECURSIVE SelectIn(_, _)
SelectIn(seq, set) ==
    IF seq = <<>> THEN <<>>
    ELSE IF Head(seq) \in set THEN <<Head(seq)>> \o SelectIn(Tail(seq), set)
    ELSE SelectIn(Tail(seq), set)

\* the sources the loop at lines 95-97 warns about
Warnings(sources) == SelectNotIn(sources, SeqToSet(valid_sources))

\* a mutated resolution that queries every mapped name, listed or not
CollectionsToQueryUnfiltered(sources, available) ==
    IF sources # <<>>
    THEN [k \in 1..Len(sources) |-> SourceMapGet(sources[k])]
    ELSE available

\* a mutated resolution that, with no sources given, queries only the first
\* collection the registry lists
CollectionsToQueryFirstOnly(sources, available) ==
    IF sources # <<>>
    THEN SelectIn([k \in 1..Len(sources) |-> SourceMapGet(sources[k])],
                  SeqToSet(available))
    ELSE SubSeq(available, 1, Min(1, Len(available)))

\* collections_to_query (lines 110-120)
CollectionsToQuery(sources, available) ==
    IF sources # <<>>
    THEN SelectIn([k \in 1..Len(sources) |-> SourceMapGet(sources[k])],
                  SeqToSet(available))
    ELSE available

QueryCall(collection_name, embedding, n_results) ==
    [op |-> "query", collection |-> collection_name,
     embedding |-> embedding, n |-> n_results]

RECURSIVE Concat(_)
Concat(seqs) == IF seqs = <<>> THEN <<>> ELSE Head(seqs) \o Concat(Tail(seqs))

\* the number of leading collections whose query does not fail
RECURSIVE LeadingOk(_, _)
LeadingOk(cols, failing) ==
    IF cols = <<>> \/ Head(cols) \in failing THEN 0
    ELSE 1 + LeadingOk(Tail(cols), failing)

\* a mutated loop that stops at the first collection whose query fails
CollectionsReachedAbortOnFailure(cols, failing) ==
    SubSeq(cols, 1, LeadingOk(cols, failing))

\* the collections the loop at lines 126-131 reaches: all of them, since
\* query_collection catches every exception of the store
CollectionsReached(cols, failing) == cols

\* the "Error querying collection ..." lines query_collection prints (line
\* 34), in loop order: one for each query that raised
QueryErrors(reached, failing, reg) ==
    SelectIn(reached, {c \in SeqToSet(reached) : c \notin reg \/ c \in failing})

\* a mutated loop that embeds the question again for every collection after
\* the first and queries with the fresh vector
QueryAllReembed(cols, embedding, n_results, failing, reg, st) ==
    LET reached == CollectionsReached(cols, failing)
        vec == [k \in 1..Len(reached) |->
                   IF k = 1 THEN embedding
                   ELSE CHOOSE v \in Vectors : v # embedding]
        per == [k \in 1..Len(reached) |->
                   FormatContext(QueryCollection(reached[k], vec[k], n_results,
                                                 failing, reg, st),
                                 reached[k])]
    IN  [calls |-> Concat([k \in 1..Len(reached) |->
                       IF k = 1 THEN <<QueryCall(reached[k], vec[k], n_results)>>
                       ELSE <<[op |-> "embed", collection |-> "",
                               embedding |-> vec[k], n |-> 0],
                              QueryCall(reached[k], vec[k], n_results)>>]),
         errors |-> QueryErrors(reached, failing, reg),
         all_context |-> Concat([k \in 1..Len(reached) |-> per[k].context]),
         all_sources |-> Concat([k \in 1..Len(reached) |-> per[k].sources])]

\* the loop at lines 126-131: the queries issued, in order, and the context
\* blocks and citations collected
QueryAll(cols, embedding, n_results, failing, reg, st) ==
    LET reached == CollectionsReached(cols, failing)
        per == [k \in 1..Len(reached) |->
                   FormatContext(QueryCollection(reached[k], embedding, n_results,
                                                 failing, reg, st),
                                 reached[k])]
    IN  [calls |-> [k \in 1..Len(reached) |->
                       QueryCall(reached[k], embedding, n_results)],
         errors |-> QueryErrors(reached, failing, reg),
         all_context |-> Concat([k \in 1..Len(reached) |-> per[k].context]),
         all_sources |-> Concat([k \in 1..Len(reached) |-> per[k].sources])]

\* Faults a question can meet, at most one per question: the embedding call
\* raises, the generation call raises, the query of one collection raises
QFaults == {"none", "embed", "generate"} \cup Collections

\* the collections whose query raises under a fault
Failing(qfault) == IF qfault \in Collections THEN {qfault} ELSE {}

\* a mutated source list that prints one line per collected citation
SourceLinesNoDedup(all_sources) ==
    [c \in SeqToSet(all_sources) |->
        Cardinality({k \in 1..Len(all_sources) : all_sources[k] = c})]

\* the "- {source}" lines printed for list(set(all_sources)) (lines 157-158):
\* how many times each citation is printed. The order of the lines is the
\* iteration order of a Python set, which is not recorded.
SourceLines(all_sources) == [c \in SeqToSet(all_sources) |-> 1]

\* a mutated test that never short-circuits
NoContextNever(all_context) == FALSE

\* `if not all_context` (line 133)
NoContext(all_context) == all_context = <<>>

\* a mutated iteration that swallows the exception of the embedding call
\* and reports nothing
EmbedFailureSilent(base) == [base EXCEPT !.embedding = "none", !.outcome = "silent"]

\* genai.embed_content raises (lines 100-103): nothing in main catches the
\* exception, it leaves main and the interpreter reports it
EmbedFailure(base) == [base EXCEPT !.embedding = "none", !.outcome = "crash"]

\* One iteration of the loop: what was read, the external calls in order,
\* what was collected and the user-visible outcome:
\*   "answer"   the answer and the source list were printed
\*   "no_info"  "No relevant information found..." was printed, main returned
\*   "crash"    an exception left main
AnswerQuestion(sources_input, n_input, embedding, qfault, reg, st) ==
    LET n_results == NResults(n_input)
        failing == Failing(qfault)
        tokens == Split(sources_input)
        sources == [k \in 1..Len(tokens) |-> Lower(tokens[k])]
        available == GetAvailableCollections(reg)
        cols == CollectionsToQuery(sources, available)
        all == QueryAll(cols, embedding, n_results, failing, reg, st)
        embed == [op |-> "embed", collection |-> "", embedding |-> embedding, n |-> 0]
        list == [op |-> "list_collections", collection |-> "", embedding |-> "", n |-> 0]
        gen == [op |-> "generate", collection |-> "", embedding |-> "", n |-> 0]
        base == [sources_input |-> sources_input, n_results |-> n_results,
                 sources |-> sources, warnings |-> Warnings(sources),
                 available |-> <<>>, collections_to_query |-> <<>>,
                 qfault |-> qfault, embedding |-> embedding,
                 calls |-> <<embed>>, all_context |-> <<>>, all_sources |-> <<>>,
                 errors |-> <<>>, shown |-> {}, printed |-> <<>>, outcome |-> "crash"]
        queried == [base EXCEPT !.available = available,
                                !.collections_to_query = cols,
                                !.calls = <<embed, list>> \o all.calls,
                                !.errors = all.errors,
                                !.all_context = all.all_context,
                                !.all_sources = all.all_sources]
    IN  IF qfault = "embed"
        THEN EmbedFailure(base)
        ELSE IF NoContext(all.all_context)
        THEN [queried EXCEPT !.outcome = "no_info"]
        ELSE IF qfault = "generate"
        THEN [queried EXCEPT !.calls = @ \o <<gen>>]
        ELSE [queried EXCEPT !.calls = @ \o <<gen>>,
                             !.shown = SeqToSet(all.all_sources),
                             !.printed = SourceLines(all.all_sources),
                             !.outcome = "answer"]

----------------------------------------------------------------------------
(* State machine *)

NoIngest ==
    [calls |-> <<>>, propagated |-> FALSE, result |-> 0, ran |-> FALSE,
     batch |-> <<>>, formatted |-> 0, submitted |-> <<>>, collection |-> "none",
     fault |-> "none", conn |-> "none", max |-> 0]

NoQuestion ==
    [sources_input |-> "", n_results |-> 0, sources |-> <<>>, warnings |-> <<>>,
     available |-> <<>>, collections_to_query |-> <<>>, qfault |-> "none",
     embedding |-> "none", calls |-> <<>>, all_context |-> <<>>,
     all_sources |-> <<>>, errors |-> <<>>, shown |-> {}, printed |-> <<>>,
     outcome |-> "none"]

\* DriveConnector.__init__ and SlackConnector.__init__: no service, no
\* client, not authenticated.  service and client are TRUE once an object
\* is assigned to them; token is whether the constructor found a Slack
\* token; returned is what the most recent authenticate call gave back.
NewSlack(token) ==
    [token |-> token, client |-> FALSE, authenticated |-> FALSE, returned |-> "none"]

NewObjects ==
    [drive |-> [service |-> FALSE, authenticated |-> FALSE, returned |-> "none"],
     slack |-> NewSlack(TRUE)]

\* the "connectors" section ConfigManager.__init__ builds when config.json
\* does not exist (lines 37-64)
DefaultConnectors ==
    [google_drive |-> [enabled |-> "False", credentials_file |-> "credentials.json",
                       token_file |-> "token.json",
                       scopes |-> "['https://www.googleapis.com/auth/drive.readonly']"],
     slack |-> [enabled |-> "False", bot_token_env |-> "SLACK_BOT_TOKEN"],
     github |-> [enabled |-> "False", token_env |-> "GITHUB_ACCESS_TOKEN",
                 repositories |-> "[]"],
     teams |-> [enabled |-> "False", client_id_env |-> "TEAMS_CLIENT_ID",
                client_secret_env |-> "TEAMS_CLIENT_SECRET"],
     jira |-> [enabled |-> "False", url_env |-> "JIRA_URL",
               username_env |-> "JIRA_USERNAME", api_token_env |-> "JIRA_API_TOKEN"]]

\* no connector method has been called on its own
NoCall == [op |-> "none"]

Init ==
    /\ registry = {}
    /\ store = [c \in Collections |-> <<>>]
    /\ ingests = 0
    /\ loaded = {}
    /\ ing = NoIngest
    /\ asked = 0
    /\ i = 0
    /\ session = "running"
    /\ q = NoQuestion
    /\ call = NoCall
    /\ objects = NewObjects
    /\ config = DefaultConnectors
    /\ config_file = "current"

\* the effect of process_connector_data(connector, TargetOf[connector],
\* max_results=max) on the store and on the record of the last call
Ingested(conn, max, fault, mode) ==
    \E r \in {ProcessConnectorData(conn, TargetOf[conn], max, fault, mode,
                                   registry, store)} :
        /\ registry' = r.registry
        /\ store' = r.store
        /\ ing' = [k \in DOMAIN NoIngest |-> r[k]]
        /\ ingests' = ingests + 1
        /\ loaded' = loaded \cup {conn}

\* process_connector_data called by any orchestrator, any number of times
Ingest ==
    /\ ingests < MaxIngests
    /\ \E conn \in Connectors, max \in 0..MaxDocs, fault \in Faults, mode \in AddModes :
          Ingested(conn, max, fault, mode)
    /\ q' = NoQuestion
    /\ UNCHANGED <<asked, i, session, call,
                 objects, config, config_file>>

\* process_and_embed.main: each connector is processed once in a run; its
\* source holds no record (the collection is created and stays empty) or as
\* many as the largest request
Load ==
    /\ \E conn \in Connectors \ loaded, max \in {0, MaxDocs}, mode \in AddModes :
          Ingested(conn, max, "none", mode)
    /\ q' = NoQuestion
    /\ UNCHANGED <<asked, i, session, call,
                 objects, config, config_file>>

\* one iteration of the loop of query_brain.main
Ask ==
    /\ session = "running"
    /\ i < LoopLimit
    /\ asked < MaxQuestions
    /\ \E sources_input \in SourcesInputs, n_input \in NResultsInputs,
          embedding \in Vectors, qfault \in QFaults :
          \E r \in {AnswerQuestion(sources_input, n_input, embedding, qfault,
                                    registry, store)} :
              /\ q' = r
              /\ i' = IF r.outcome = "answer" THEN i + 1 ELSE i
              /\ session' = CASE r.outcome = "crash" -> "crashed"
                               [] r.outcome = "no_info" -> "returned"
                               [] r.outcome = "answer" /\ i + 1 >= LoopLimit -> "finished"
                               [] OTHER -> "running"
    /\ asked' = asked + 1
    /\ ing' = NoIngest
    /\ UNCHANGED <<registry, store, ingests, loaded, call,
                 objects, config, config_file>>

\* query_brain is started again after it ended
Start ==
    /\ session # "running"
    /\ asked < MaxQuestions
    /\ session' = "running"
    /\ i' = 0
    /\ UNCHANGED <<registry, store, ingests, loaded, ing, asked, q, call,
                 objects, config, config_file>>

\* scenario A: the Document is ingested into github_knowledge
LoadScenarioA ==
    /\ \E conn \in ScenarioConnectors \ loaded, mode \in AddModes :
          Ingested(conn, MaxDocs, "none", mode)
    /\ q' = NoQuestion
    /\ UNCHANGED <<asked, i, session, call,
                 objects, config, config_file>>

NextScenarioA == LoadScenarioA \/ Ask \/ Start

\* the ingest of scenario A and the sessions of query_brain.main
SpecScenarioA == Init /\ [][NextScenarioA]_vars

\* the ingestion pipeline alone, called repeatedly
NextIngest == Ingest

SpecIngest == Init /\ [][NextIngest]_vars

\* one run of process_and_embed.main and the sessions of query_brain.main
Next == Load \/ Ask \/ Start

Spec == Init /\ [][Next]_vars

----------------------------------------------------------------------------
(* Connector methods called on their own.  A key a raw record lacks is     *)
(* written Absent; the other values are the strings of the raw record.     *)

Absent == "<absent>"

MaxBatch == 2       \* raw records handed to one process_data call

\* all sequences over a set of length at most n
SeqsUpTo(set, n) == UNION {[1..m -> set] : m \in 0..n}

\* what a method call gives back: the exception that left it, or its value
Raise(error) == [raised |-> TRUE, error |-> error, value |-> <<>>]
Return(value) == [raised |-> FALSE, error |-> "", value |-> value]

\* raw Drive file records (the fields files().list returns, plus content)
DriveItems ==
    [id : {Absent, "f1"},
     owners : {Absent, "[]", "[{}]", "[{displayName: Ann}]"},
     createdTime : {Absent, "", "2024-01-01T10:00:00Z", "yesterday"},
     name : {"Plan"}, mimeType : {"application/pdf"}, content : {""}]

\* datetime.fromisoformat(s.replace('Z', '+00:00')).isoformat(); Absent
\* where fromisoformat raises ValueError
IsoFormat(s) ==
    CASE s = "2024-01-01T10:00:00Z" -> "2024-01-01T10:00:00+00:00"
      [] s = "2024-01-01T10:00:00+00:00" -> "2024-01-01T10:00:00+00:00"
      [] OTHER -> Absent

\* item.get(k, default) on a raw record
RawGet(item, k, default) == IF item[k] = Absent THEN default ELSE item[k]

\* the body of the loop of DriveConnector.process_data (lines 185-207)
DriveDocument(item) ==
    LET created_time == RawGet(item, "createdTime", "")
        owner == IF item.owners = "[{displayName: Ann}]" THEN "Ann" ELSE "Unknown"
    IN  IF item.id = Absent THEN Raise("KeyError")
        ELSE IF item.owners = "[]" THEN Raise("IndexError")
        ELSE IF created_time # "" /\ IsoFormat(created_time) = Absent
        THEN Raise("ValueError")
        ELSE Return([id |-> S("drive_" \o item.id),
                     source |-> S("Google Drive"),
                     title |-> S(RawGet(item, "name", "Untitled")),
                     owner |-> S(owner),
                     created |-> S(IF created_time = "" THEN "" ELSE IsoFormat(created_time)),
                     type |-> S(RawGet(item, "mimeType", "unknown")),
                     message |-> S(RawGet(item, "content", ""))])

\* a process_data loop over the records, given what the loop body does for
\* each: the Documents in order, unless the loop body raises for a record;
\* the first such exception leaves the method
NormalizeAll(outcomes) ==
    LET raising == {k \in 1..Len(outcomes) : outcomes[k].raised}
    IN  IF raising # {}
        THEN outcomes[CHOOSE k \in raising : \A m \in raising : k <= m]
        ELSE Return([k \in 1..Len(outcomes) |-> outcomes[k].value])

\* DriveConnector.process_data
DriveProcessData(data) ==
    NormalizeAll([k \in 1..Len(data) |-> DriveDocument(data[k])])

\* raw Slack message records
SlackItems ==
    [id : {Absent, "1.0", "2.5"},
     timestamp : {Absent, "", "1.0", "noon"},
     thread_ts : {Absent, "", "1.0"},
     sender : {"Bob"}, channel : {"general"}, message : {""}]

\* str.replace('.', '_') on the message ids that occur
Underscored(s) ==
    CASE s = "1.0" -> "1_0"
      [] s = "2.5" -> "2_5"
      [] OTHER -> s

\* datetime.fromtimestamp(float(s)).isoformat(), or s itself where float
\* raises (the exception is swallowed at lines 191-192)
SlackTimestamp(s) ==
    CASE s = "1.0" -> "1970-01-01T00:00:01"
      [] s = "2.5" -> "1970-01-01T00:00:02.500000"
      [] OTHER -> s

\* the body of the loop of SlackConnector.process_data (lines 180-207)
SlackDocument(item) ==
    LET timestamp == RawGet(item, "timestamp", "")
        document == [id |-> S("slack_" \o Underscored(item.id)),
                     sender |-> S(RawGet(item, "sender", "Unknown")),
                     timestamp |-> S(SlackTimestamp(timestamp)),
                     channel |-> S(RawGet(item, "channel", "Unknown")),
                     message |-> S(RawGet(item, "message", ""))]
    IN  IF item.id = Absent THEN Raise("KeyError")
        ELSE IF item.thread_ts # Absent /\ item.thread_ts # item.id
        THEN Return([k \in DOMAIN document \cup {"thread_id"} |->
                        IF k = "thread_id"
                        THEN S("slack_" \o Underscored(item.thread_ts))
                        ELSE document[k]])
        ELSE Return(document)

\* SlackConnector.process_data
SlackProcessData(data) ==
    NormalizeAll([k \in 1..Len(data) |-> SlackDocument(data[k])])

\* raw GitHub records (the dicts GitHubConnector.fetch_data appends)
GitHubItems ==
    [id : {Absent, "101"},
     type : {Absent, "issue", "pull_request", "repository"},
     name : {Absent, "#1 - Bug fix", "o/r"},
     content : {Absent, "Fixes crash on startup"},
     url : {"https://github.com/o/r"}, created_at : {"2024-01-01T10:00:00Z"},
     updated_at : {Absent, "2024-01-02T10:00:00Z"}]

\* GitHubConnector._parse_date (lines 171-179): the date in the standard
\* format, or the string itself where strptime raises
ParseDate(date_str) ==
    CASE date_str = "2024-01-01T10:00:00Z" -> "2024-01-01 10:00:00"
      [] date_str = "2024-01-02T10:00:00Z" -> "2024-01-02 10:00:00"
      [] OTHER -> date_str

\* name.split("/")[0] if "/" in name else ""
RepositoryOf(name) ==
    CASE name = "o/r" -> "o"
      [] OTHER -> ""

\* the body of the loop of GitHubConnector.process_data (lines 147-167)
GitHubDocument(item) ==
    Return([id |-> S(RawGet(item, "id", "")),
            source |-> S("github"),
            source_type |-> S(RawGet(item, "type", "unknown")),
            title |-> S(RawGet(item, "name", "")),
            url |-> S(RawGet(item, "url", "")),
            content |-> S(RawGet(item, "content", "")),
            created_at |-> S(ParseDate(RawGet(item, "created_at", ""))),
            updated_at |-> S(ParseDate(RawGet(item, "updated_at", ""))),
            metadata |-> D([type |-> S(RawGet(item, "type", "")),
                            repository |-> S(RepositoryOf(RawGet(item, "name", "")))])])

\* GitHubConnector.process_data
GitHubProcessData(data) ==
    NormalizeAll([k \in 1..Len(data) |-> GitHubDocument(data[k])])

\* the raw records of a connector
RawItems(c) ==
    CASE c = "drive" -> DriveItems
      [] c = "slack" -> SlackItems
      [] c = "github" -> GitHubItems

\* process_data of a connector
ProcessDataOf(c, data) ==
    CASE c = "drive" -> DriveProcessData(data)
      [] c = "slack" -> SlackProcessData(data)
      [] c = "github" -> GitHubProcessData(data)

\* connector.process_data(data) called on any sequence of raw records
Normalize ==
    /\ call = NoCall
    /\ \E c \in {"drive", "slack", "github"} :
          \E data \in SeqsUpTo(RawItems(c), MaxBatch) :
              call' = [op |-> "process_data", connector |-> c, data |-> data,
                       result |-> ProcessDataOf(c, data)]
    /\ UNCHANGED <<registry, store, ingests, loaded, ing, asked, i, session, q,
                 objects, config, config_file>>

MaxHeld == 3        \* records a source (folder, repository, channel) holds
MaxPage == 2        \* largest number of records the API puts in one page
MaxSources == 3     \* repositories or channels named in one fetch call

DrivePageSizeCap == 100

\* One files().list request (lines 138-144): the server answers with the
\* next records after `offset`, at most pageSize and at most its own page
\* limit, and a nextPageToken while records remain.  Files are numbered
\* 1..held in listing order.
DrivePage(held, offset, pageSize, limit) ==
    LET n == Min(Min(pageSize, limit), held - offset)
    IN  [files |-> [k \in 1..n |-> offset + k],
         nextPageToken |-> offset + n < held]

\* the loop of DriveConnector.fetch_data (lines 134-150): the records
\* collected and the number of requests made
RECURSIVE DriveCollect(_, _, _, _, _)
DriveCollect(held, max_results, limit, results, requests) ==
    LET response == DrivePage(held, Len(results),
                              Min(max_results, DrivePageSizeCap), limit)
        extended == results \o response.files
    IN  IF ~response.nextPageToken \/ Len(extended) >= max_results
        THEN [results |-> extended, requests |-> requests + 1]
        ELSE DriveCollect(held, max_results, limit, extended, requests + 1)

\* DriveConnector.fetch_data: results[:max_results] (line 169)
DriveFetchData(held, max_results, limit) ==
    LET got == DriveCollect(held, max_results, limit, <<>>, 0)
    IN  [value |-> SubSeq(got.results, 1, Min(max_results, Len(got.results))),
         requests |-> got.requests]

\* what a repository does to the requests of a fetch: "ok"; "not_found",
\* the repository request answers with a status other than 200; "error",
\* the repository request raises; "issues_error", the issues request raises
RepoStatuses == {"ok", "not_found", "error", "issues_error"}

\* One issues request (lines 112-118), per_page = max_items: the server
\* answers with the first page only, of at most its own page limit.  The
\* issues of a repository are numbered 1..held.
IssuesPage(repo, held, per_page, limit) ==
    [k \in 1..Min(Min(per_page, limit), held) |->
        [type |-> "issue", source |-> repo, n |-> k]]

\* the body of the loop over repos of GitHubConnector.fetch_data (lines
\* 69-138), for the repository at position `repo`: the records it appends
GitHubRepoData(repo, r, max_items, limit) ==
    LET head == <<[type |-> "repository", source |-> repo, n |-> 0],
                  [type |-> "readme", source |-> repo, n |-> 0]>>
    IN  CASE r.status = "not_found" -> <<>>
          [] r.status = "error" -> <<>>
          [] r.status = "issues_error" -> head
          [] OTHER -> head \o IssuesPage(repo, r.held, max_items, limit)

\* a mutated fetch_data without the try around the loop body: the exception
\* of one repository leaves the method and nothing is returned
GitHubFetchDataUnguarded(repos, max_items, limit) ==
    IF \E k \in 1..Len(repos) : repos[k].status \in {"error", "issues_error"}
    THEN <<>>
    ELSE Concat([k \in 1..Len(repos) |-> GitHubRepoData(k, repos[k], max_items, limit)])

\* GitHubConnector.fetch_data(repos=..., max_items=...)
GitHubFetchData(repos, max_items, limit) ==
    Concat([k \in 1..Len(repos) |-> GitHubRepoData(k, repos[k], max_items, limit)])

\* what a channel does to the requests of a fetch: "ok"; "info_error",
\* conversations_info raises; "history_error", conversations_history raises
ChannelStatuses == {"ok", "info_error", "history_error"}

\* the body of the loop over channels of SlackConnector.fetch_data (lines
\* 84-163), for the channel at position `channel`, whose messages have no
\* replies: one record for each message of the first page of the history
SlackChannelData(channel, c, limit, page_limit) ==
    IF c.status # "ok" THEN <<>>
    ELSE [k \in 1..Min(Min(limit, page_limit), c.held) |->
             [type |-> "message", source |-> channel, n |-> k]]

\* SlackConnector.fetch_data(channels=..., limit=...)
SlackFetchData(channels, limit, page_limit) ==
    Concat([k \in 1..Len(channels) |->
               SlackChannelData(k, channels[k], limit, page_limit)])

\* DriveConnector.fetch_data(max_results=...) on a folder of `held` files
FetchDrive ==
    /\ call = NoCall
    /\ \E held \in 0..MaxHeld, max_results \in 1..MaxHeld, limit \in 1..MaxPage :
          \E r \in {DriveFetchData(held, max_results, limit)} :
              call' = [op |-> "fetch_data", connector |-> "drive", held |-> held,
                       max |-> max_results, limit |-> limit,
                       value |-> r.value, requests |-> r.requests]
    /\ UNCHANGED <<registry, store, ingests, loaded, ing, asked, i, session, q,
                 objects, config, config_file>>

\* GitHubConnector.fetch_data on up to MaxSources repositories
FetchGitHub ==
    /\ call = NoCall
    /\ \E repos \in SeqsUpTo([status : RepoStatuses, held : {0, MaxHeld}], MaxSources),
          max_items \in 1..MaxHeld, limit \in 1..MaxPage :
          call' = [op |-> "fetch_data", connector |-> "github", sources |-> repos,
                   max |-> max_items, limit |-> limit,
                   value |-> GitHubFetchData(repos, max_items, limit)]
    /\ UNCHANGED <<registry, store, ingests, loaded, ing, asked, i, session, q,
                 objects, config, config_file>>

\* SlackConnector.fetch_data on up to MaxSources channels
FetchSlack ==
    /\ call = NoCall
    /\ \E channels \in SeqsUpTo([status : ChannelStatuses, held : {0, MaxHeld}], MaxSources),
          limit \in 1..MaxHeld, page_limit \in 1..MaxPage :
          call' = [op |-> "fetch_data", connector |-> "slack", sources |-> channels,
                   max |-> limit, limit |-> page_limit,
                   value |-> SlackFetchData(channels, limit, page_limit)]
    /\ UNCHANGED <<registry, store, ingests, loaded, ing, asked, i, session, q,
                 objects, config, config_file>>

\* token.json as DriveConnector.authenticate finds it: no file, a file that
\* does not parse, valid credentials, expired credentials with a refresh
\* token, expired credentials without one
TokenFiles == {"absent", "invalid", "valid", "expired_refreshable", "expired"}

\* the step of DriveConnector.authenticate that raises, if it is reached:
\* creds.refresh, the authentication flow, writing token.json (with any
\* error, or with FileNotFoundError), build
DriveAuthFaults == {"none", "refresh", "flow", "save", "save_not_found", "build"}

\* DriveConnector.authenticate (lines 41-86): what it gives back and the
\* authenticated flag afterwards
DriveAuthenticate(credentials_exist, token_file, fault, authenticated) ==
    LET renew == token_file # "valid"
        step == IF token_file = "expired_refreshable" THEN "refresh" ELSE "flow"
        failed == \/ renew /\ fault \in {step, "save"}
                  \/ fault = "build"
    IN  IF ~credentials_exist
        THEN [result |-> Raise("FileNotFoundError"), authenticated |-> authenticated]
        ELSE IF renew /\ fault = "save_not_found"
        THEN [result |-> Raise("FileNotFoundError"), authenticated |-> authenticated]
        ELSE IF failed
        THEN [result |-> Return("False"), authenticated |-> FALSE]
        ELSE [result |-> Return("True"), authenticated |-> TRUE]

\* the step of SlackConnector.authenticate that raises: auth_test with
\* SlackApiError, or WebClient / auth_test with another exception
SlackAuthFaults == {"none", "api_error", "other"}

\* SlackConnector.authenticate (lines 34-52): the ValueError raised for a
\* missing token is raised inside the try and caught by `except Exception`
SlackAuthenticate(token_given, fault, authenticated) ==
    IF ~token_given \/ fault # "none"
    THEN [result |-> Return("False"), authenticated |-> FALSE]
    ELSE [result |-> Return("True"), authenticated |-> TRUE]

\* DriveConnector.authenticate in any environment
AuthDrive ==
    /\ call = NoCall
    /\ \E credentials_exist \in BOOLEAN, token_file \in TokenFiles,
          fault \in DriveAuthFaults, authenticated \in BOOLEAN :
          \E r \in {DriveAuthenticate(credentials_exist, token_file, fault, authenticated)} :
              call' = [op |-> "authenticate", connector |-> "drive",
                       credential |-> credentials_exist, token_file |-> token_file,
                       fault |-> fault, before |-> authenticated,
                       result |-> r.result, authenticated |-> r.authenticated]
    /\ UNCHANGED <<registry, store, ingests, loaded, ing, asked, i, session, q,
                 objects, config, config_file>>

\* SlackConnector.authenticate in any environment
AuthSlack ==
    /\ call = NoCall
    /\ \E token_given \in BOOLEAN, fault \in SlackAuthFaults, authenticated \in BOOLEAN :
          \E r \in {SlackAuthenticate(token_given, fault, authenticated)} :
              call' = [op |-> "authenticate", connector |-> "slack",
                       credential |-> token_given, token_file |-> "absent",
                       fault |-> fault, before |-> authenticated,
                       result |-> r.result, authenticated |-> r.authenticated]
    /\ UNCHANGED <<registry, store, ingests, loaded, ing, asked, i, session, q,
                 objects, config, config_file>>

NextConnectors ==
    Normalize \/ FetchDrive \/ FetchGitHub \/ FetchSlack \/ AuthDrive \/ AuthSlack

\* single calls of connector methods, on any input
SpecConnectors == Init /\ [][NextConnectors]_vars

----------------------------------------------------------------------------
(* Connector objects: authenticate and fetch_data called in any order on   *)
(* one DriveConnector and one SlackConnector.                              *)

\* what a call gave back, as the history field of the object records it
Outcome(result) == IF result.raised THEN "raised" ELSE result.value

\* self.service after DriveConnector.authenticate: build assigns it (line
\* 75) only when every step before it and build itself did not raise
DriveService(result, service) ==
    IF result = Return("True") THEN TRUE ELSE service

\* self.client after SlackConnector.authenticate: WebClient(...) is assigned
\* (line 39) before auth_test is called, unless the token is missing or the
\* constructor itself raised
SlackClient(token_given, built, client) ==
    IF token_given /\ built THEN TRUE ELSE client

\* the check at the head of fetch_data (drive_connector.py 101-102,
\* slack_connector.py 68-69), then the fetch
GuardedFetch(handle, value) ==
    IF ~handle THEN Raise("Not authenticated. Call authenticate() first.")
    ELSE Return(value)

\* DriveConnector.authenticate on the object
AuthenticateDrive ==
    /\ \E credentials_exist \in BOOLEAN, token_file \in TokenFiles,
          fault \in DriveAuthFaults :
          \E r \in {DriveAuthenticate(credentials_exist, token_file, fault,
                                      objects.drive.authenticated)} :
              /\ objects' = [objects EXCEPT !.drive =
                                [service |-> DriveService(r.result, @.service),
                                 authenticated |-> r.authenticated,
                                 returned |-> Outcome(r.result)]]
              /\ call' = [op |-> "authenticate", connector |-> "drive",
                          credential |-> credentials_exist, token_file |-> token_file,
                          fault |-> fault, before |-> objects.drive.authenticated,
                          result |-> r.result, authenticated |-> r.authenticated]
    /\ UNCHANGED <<registry, store, ingests, loaded, ing, asked, i, session, q,
                   config, config_file>>

\* SlackConnector.authenticate on the object; an exception other than
\* SlackApiError comes from WebClient(...) (built = FALSE) or from auth_test
AuthenticateSlack ==
    /\ \E fault \in SlackAuthFaults, built \in BOOLEAN :
          /\ ~built => fault = "other"
          /\ \E r \in {SlackAuthenticate(objects.slack.token, fault,
                                         objects.slack.authenticated)} :
                /\ objects' = [objects EXCEPT !.slack =
                                  [token |-> @.token,
                                   client |-> SlackClient(@.token, built, @.client),
                                   authenticated |-> r.authenticated,
                                   returned |-> Outcome(r.result)]]
                /\ call' = [op |-> "authenticate", connector |-> "slack",
                            credential |-> objects.slack.token, token_file |-> "none",
                            fault |-> fault, before |-> objects.slack.authenticated,
                            result |-> r.result, authenticated |-> r.authenticated]
    /\ UNCHANGED <<registry, store, ingests, loaded, ing, asked, i, session, q,
                   config, config_file>>

\* DriveConnector.fetch_data on the object
FetchDataDrive ==
    /\ \E held \in 0..MaxHeld :
          call' = [op |-> "fetch_data", connector |-> "drive",
                   result |-> GuardedFetch(objects.drive.service,
                                           DriveFetchData(held, MaxHeld, MaxPage).value)]
    /\ UNCHANGED <<registry, store, ingests, loaded, ing, asked, i, session, q,
                   objects, config, config_file>>

\* SlackConnector.fetch_data on the object, for one channel
FetchDataSlack ==
    /\ \E channels \in SeqsUpTo([status : ChannelStatuses, held : {0, MaxHeld}], 1) :
          call' = [op |-> "fetch_data", connector |-> "slack",
                   result |-> GuardedFetch(objects.slack.client,
                                           SlackFetchData(channels, MaxHeld, MaxPage))]
    /\ UNCHANGED <<registry, store, ingests, loaded, ing, asked, i, session, q,
                   objects, config, config_file>>

\* a new SlackConnector replaces the object; the constructor finds a token
\* or none (lines 18-22)
NewSlackConnector ==
    /\ \E token \in BOOLEAN : objects' = [objects EXCEPT !.slack = NewSlack(token)]
    /\ call' = [op |-> "__init__", connector |-> "slack"]
    /\ UNCHANGED <<registry, store, ingests, loaded, ing, asked, i, session, q,
                   config, config_file>>

NextObjects ==
    \/ AuthenticateDrive
    \/ AuthenticateSlack
    \/ FetchDataDrive
    \/ FetchDataSlack
    \/ NewSlackConnector

SpecObjects == Init /\ [][NextObjects]_vars

----------------------------------------------------------------------------

(* ConfigManager: the enabled flags of the connectors *)

\* a connector name config.json does not list
UnknownConnector == "custom"

\* the connector names callers pass
ConfigNames == {"slack", UnknownConnector}

\* the keys of config["connectors"] in dict order: the default ones in the
\* order __init__ writes them, then the name added by an update
ConfigOrder == <<"google_drive", "slack", "github", "teams", "jira", UnknownConnector>>

\* the config_updates callers pass to update_connector_config
ConfigUpdates ==
    {[enabled |-> "True"], [enabled |-> "False"], [token_file |-> "other.json"]}

NoSettings == [k \in {} |-> ""]

\* d.update(updates)
DictUpdate(d, updates) ==
    [k \in DOMAIN d \cup DOMAIN updates |->
        IF k \in DOMAIN updates THEN updates[k] ELSE d[k]]

\* a mutated update that replaces the settings of the connector by the
\* updates
UpdateConnectorConfigReplace(connectors, connector_name, config_updates) ==
    [c \in DOMAIN connectors \cup {connector_name} |->
        IF c = connector_name THEN config_updates ELSE connectors[c]]

\* update_connector_config (lines 116-119): the connectors section afterwards
UpdateConnectorConfig(connectors, connector_name, config_updates) ==
    [c \in DOMAIN connectors \cup {connector_name} |->
        IF c # connector_name THEN connectors[c]
        ELSE DictUpdate(IF c \in DOMAIN connectors THEN connectors[c] ELSE NoSettings,
                        config_updates)]

\* _save_config (lines 88-95): an exception of open or json.dump is logged
\* and swallowed
SaveConfig(save_fails) == IF save_fails THEN "stale" ELSE "current"

\* is_connector_enabled (lines 135-140)
IsConnectorEnabled(connectors, connector_name) ==
    IF connector_name \in DOMAIN connectors /\ "enabled" \in DOMAIN connectors[connector_name]
    THEN connectors[connector_name]["enabled"]
    ELSE "False"

\* get_enabled_connectors (lines 204-210)
GetEnabledConnectors(connectors) ==
    LET Enabled(c) == c \in DOMAIN connectors /\ IsConnectorEnabled(connectors, c) = "True"
    IN  SelectSeq(ConfigOrder, Enabled)

\* what auto_configure_connectors finds: credentials.json, SLACK_BOT_TOKEN,
\* both Teams variables, all three Jira variables
Environments == [google_drive : BOOLEAN, slack : BOOLEAN, teams : BOOLEAN, jira : BOOLEAN]

\* the connectors section after the enable_connector calls of
\* auto_configure_connectors (lines 183-200), from position k of `names`
RECURSIVE AutoConfigure(_, _, _, _)
AutoConfigure(connectors, env, names, k) ==
    IF k > Len(names) THEN connectors
    ELSE AutoConfigure(IF env[names[k]]
                       THEN UpdateConnectorConfig(connectors, names[k], [enabled |-> "True"])
                       ELSE connectors,
                       env, names, k + 1)

\* the connectors auto_configure_connectors looks at, in its order
AutoConfigured == <<"google_drive", "slack", "teams", "jira">>

\* the effect of update_connector_config on the state
Updated(op, connector_name, config_updates, save_fails) ==
    /\ config' = UpdateConnectorConfig(config, connector_name, config_updates)
    /\ config_file' = SaveConfig(save_fails)
    /\ call' = [op |-> op, connector_name |-> connector_name,
                config_updates |-> config_updates, before |-> config,
                result |-> "True"]

\* update_connector_config(connector_name, config_updates)
UpdateConnector ==
    /\ \E c \in ConfigNames, u \in ConfigUpdates, save_fails \in BOOLEAN :
          Updated("update_connector_config", c, u, save_fails)
    /\ UNCHANGED <<registry, store, ingests, loaded, ing, asked, i, session, q, objects>>

\* enable_connector(connector_name)
EnableConnector ==
    /\ \E c \in ConfigNames, save_fails \in BOOLEAN :
          Updated("enable_connector", c, [enabled |-> "True"], save_fails)
    /\ UNCHANGED <<registry, store, ingests, loaded, ing, asked, i, session, q, objects>>

\* disable_connector(connector_name)
DisableConnector ==
    /\ \E c \in ConfigNames, save_fails \in BOOLEAN :
          Updated("disable_connector", c, [enabled |-> "False"], save_fails)
    /\ UNCHANGED <<registry, store, ingests, loaded, ing, asked, i, session, q, objects>>

\* auto_configure_connectors()
AutoConfigureConnectors ==
    /\ \E env \in Environments, save_fails \in BOOLEAN :
          \E r \in {AutoConfigure(config, env, AutoConfigured, 1)} :
              /\ config' = r
              /\ config_file' = IF \E c \in DOMAIN env : env[c]
                                THEN SaveConfig(save_fails)
                                ELSE config_file
              /\ call' = [op |-> "auto_configure_connectors", env |-> env,
                          before |-> config, result |-> GetEnabledConnectors(r)]
    /\ UNCHANGED <<registry, store, ingests, loaded, ing, asked, i, session, q, objects>>

NextConfig ==
    \/ UpdateConnector
    \/ EnableConnector
    \/ DisableConnector
    \/ AutoConfigureConnectors

SpecConfig == Init /\ [][NextConfig]_vars

----------------------------------------------------------------------------

(* Properties *)

Range(seq) == {seq[k] : k \in 1..Len(seq)}

\* the collections of the query calls among `calls`, in call order
RECURSIVE QueriedCollections(_)
QueriedCollections(calls) ==
    IF calls = <<>> THEN <<>>
    ELSE IF Head(calls).op = "query"
    THEN <<Head(calls).collection>> \o QueriedCollections(Tail(calls))
    ELSE QueriedCollections(Tail(calls))

\* the number of hits the store returns to the last question for the
\* collections at positions k..Len(cols) whose query does not fail
RECURSIVE HitCount(_, _)
HitCount(cols, k) ==
    IF k > Len(cols) THEN 0
    ELSE (IF cols[k] = q.qfault THEN 0
          ELSE Len(Hits(store[cols[k]], q.embedding, q.n_results)))
         + HitCount(cols, k + 1)

\* the last operation was a question whose collection queries were reached
Queried == q.outcome # "none" /\ q.qfault # "embed"

\* C1: when the store query of one collection raises during a question, no
\* exception leaves the loop, every resolved collection is still queried,
\* each hit of every other collection has its context block and citation in
\* the fused context and source list, the failing collection contributes
\* nothing, and the answer is still produced when there is any hit.
C1_FanOutFaultIsolation ==
    (Queried /\ q.qfault \in Collections) =>
        LET cols == q.collections_to_query
        IN  /\ q.outcome \in {"answer", "no_info"}
            /\ QueriedCollections(q.calls) = cols
            /\ \A k \in 1..Len(cols) :
                  cols[k] # q.qfault =>
                      \A e \in Range(Hits(store[cols[k]], q.embedding, q.n_results)) :
                          /\ ContextBlock(e, cols[k]) \in Range(q.all_context)
                          /\ Citation(e, cols[k]) \in Range(q.all_sources)
                          /\ Citation(e, cols[k]) \in q.shown
            /\ Len(q.all_context) = HitCount(cols, 1)
            /\ (HitCount(cols, 1) > 0 => q.outcome = "answer")

\* C1 witness: the first of several queried collections holds entries and
\* its query raised, and the question was still answered
C1_Witness ==
    /\ Queried
    /\ Len(q.collections_to_query) >= 2
    /\ q.qfault = q.collections_to_query[1]
    /\ store[q.qfault] # <<>>
    /\ q.outcome = "answer"

RunFaults == {"auth_false", "auth_raise", "fetch", "process"}

\* C2: process_connector_data lets no exception reach its caller and
\* returns 0, whichever step fails.
C2_NeverPropagates ==
    ing.fault # "none" => (~ing.propagated /\ ing.result = 0)

\* C3: when run_pipeline fails in process_connector_data (authenticate
\* returning False included), the call returns 0, collection.add is not
\* called and the entries of every collection are what they were before.
C3_RunFailureWritesNothing ==
    [][(ingests' = ingests + 1 /\ ing'.fault \in RunFaults) =>
          /\ ~ing'.propagated
          /\ ing'.result = 0
          /\ "add" \notin Range(ing'.calls)
          /\ store' = store]_vars

\* C3 witness: authenticate returned False in a call made when a collection
\* already held entries
C3_Witness ==
    /\ ing.fault = "auth_false"
    /\ \E c \in Collections : store[c] # <<>>

\* the calls of run_pipeline among the calls of process_connector_data
PipelineCalls(calls) ==
    SelectSeq(calls, LAMBDA c : c \in {"authenticate", "fetch_data", "process_data"})

IsPrefix(a, b) == Len(a) <= Len(b) /\ a = SubSeq(b, 1, Len(a))

\* C4: run_pipeline calls authenticate, then fetch_data, then process_data,
\* in that order; when authenticate returns False it raises and calls
\* neither fetch_data nor process_data; otherwise what it returns is
\* process_data(fetch_data(params)).
C4_PipelineOrder ==
    ing.fault # "create" /\ ing.conn # "none" =>
        /\ PipelineCalls(ing.calls) # <<>>
        /\ IsPrefix(PipelineCalls(ing.calls),
                    <<"authenticate", "fetch_data", "process_data">>)
        /\ (ing.fault = "auth_false" =>
               ~ing.ran /\ PipelineCalls(ing.calls) = <<"authenticate">>)
        /\ (ing.ran =>
               /\ PipelineCalls(ing.calls) = <<"authenticate", "fetch_data", "process_data">>
               /\ ing.batch = ProcessData(ing.conn, FetchData(ing.conn, ing.max)))

\* C4 witness: a run that authenticated, fetched and normalized two records
C4_Witness ==
    /\ ing.ran
    /\ Len(ing.batch) = 2

\* the positions of the entries that carry the id
Holding(entries, id) == {j \in 1..Len(entries) : entries[j].id = id}

\* C5: ingesting a Document whose id the collection already holds
\* overwrites the stored entry: afterwards the collection holds exactly one
\* entry for the id, it carries the newly ingested content, and the call
\* reports every entry as written.
C5_UpsertOverwrites ==
    [][(/\ ingests' = ingests + 1
        /\ ing'.fault = "none"
        /\ ing'.submitted # <<>>
        /\ ~HasDuplicateIds(ing'.submitted)) =>
          \A k \in 1..Len(ing'.submitted) :
              ing'.submitted[k].id \in Ids(store[ing'.collection]) =>
                  /\ ing'.result = Len(ing'.batch)
                  /\ Cardinality(Holding(store'[ing'.collection], ing'.submitted[k].id)) = 1
                  /\ ing'.submitted[k] \in Range(store'[ing'.collection])]_vars

CountOf(seq, x) == Cardinality({k \in 1..Len(seq) : seq[k] = x})

\* what C6 says of the record of one call
SingleWriteAfterFormatting ==
    /\ CountOf(ing.calls, "add") <= 1
    /\ ("add" \in Range(ing.calls) =>
           /\ ing.calls[Len(ing.calls)] = "add"
           /\ ing.ran
           /\ ing.batch # <<>>
           /\ ing.formatted = Len(ing.batch)
           /\ CountOf(ing.calls, "format") = Len(ing.batch))
    /\ (ing.ran /\ ing.batch = <<>> =>
           "add" \notin Range(ing.calls) /\ ing.result = 0)

\* C6: each process_connector_data call makes at most one collection.add
\* call, after every returned document was formatted, and the store changes
\* in no other way; when the connector returns no documents collection.add
\* is not called and the count returned is 0.
C6_SingleBatchedWrite ==
    [][ingests' = ingests + 1 =>
          /\ SingleWriteAfterFormatting'
          /\ (store' # store => "add" \in Range(ing'.calls))]_vars

\* C6 witness: a call that formatted two documents and then wrote them
C6_Witness ==
    /\ Len(ing.batch) = 2
    /\ ing.calls[Len(ing.calls)] = "add"
    /\ ing.result = 2

\* C7: after a process_connector_data call that wrote its batch, every
\* Document the connector returned has exactly one entry in the collection,
\* the entry formatted from it, and the count returned is the number of
\* Documents returned.
C7_EveryDocumentStored ==
    ing.result > 0 =>
        /\ ing.result = Len(ing.batch)
        /\ \A k \in 1..Len(ing.batch) :
              LET e == FormatEntry(ing.batch[k], ing.collection, k - 1)
              IN  /\ Cardinality(Holding(store[ing.collection], e.id)) = 1
                  /\ e \in Range(store[ing.collection])

\* C8 as stated: the metadata handed to the store for a Document holds
\* every scalar field of the Document with its value, no list or mapping
\* field, and the Document's source tag under "source".
C8_MetadataScalarsAndSource ==
    \A k \in 1..Len(ing.submitted) :
        LET m == ing.submitted[k].metadata
            d == ing.batch[k]
        IN  /\ \A f \in DOMAIN d : IsScalar(d[f]) => f \in DOMAIN m /\ m[f] = d[f]
            /\ \A f \in DOMAIN m : f \in DOMAIN d => IsScalar(d[f])
            /\ "source" \in DOMAIN m
            /\ ("source" \in DOMAIN d => m["source"] = d["source"])

\* C8 amended: the metadata handed to the store for a Document holds every
\* scalar field of the Document other than "source" with its value, no
\* other field, and under "source" the Document's source tag in lower case
\* (the empty string when the Document has no source tag).
C8_MetadataScalarsAndLoweredSource ==
    \A k \in 1..Len(ing.submitted) :
        LET m == ing.submitted[k].metadata
            d == ing.batch[k]
        IN  /\ \A f \in (DOMAIN d) \ {"source"} :
                  IsScalar(d[f]) => f \in DOMAIN m /\ m[f] = d[f]
            /\ \A f \in (DOMAIN m) \ {"source"} : f \in DOMAIN d /\ IsScalar(d[f])
            /\ "source" \in DOMAIN m
            /\ m["source"] = S(Lower(IF "source" \in DOMAIN d THEN d["source"].v ELSE ""))

\* C8 witness: a Document with a mapping-valued field and a capitalised
\* source tag was handed to the store
C8_Witness ==
    \E k \in 1..Len(ing.submitted) :
        /\ "metadata" \in DOMAIN ing.batch[k]
        /\ ing.batch[k]["source"].v = "GitHub"

\* C9: every selected source name that is not a recognized short name is
\* warned about, is not among the collections queried, and makes nothing
\* raise, whatever the registry holds.
C9_UnrecognizedExcluded ==
    Queried =>
        \A k \in 1..Len(q.sources) :
            q.sources[k] \notin Range(valid_sources) =>
                /\ q.sources[k] \in Range(q.warnings)
                /\ q.sources[k] \notin Range(QueriedCollections(q.calls))
                /\ (q.outcome = "crash" => q.qfault = "generate")

\* C10: with no sources specified the collections queried are exactly the
\* collections the registry lists when the question is asked; with sources
\* specified only collections the registry lists are queried.
C10_QueriedAreRegistered ==
    Queried =>
        /\ q.available = GetAvailableCollections(registry)
        /\ QueriedCollections(q.calls) = q.collections_to_query
        /\ (q.sources = <<>> =>
               /\ Range(q.collections_to_query) = registry
               /\ Len(q.collections_to_query) = Cardinality(registry))
        /\ (q.sources # <<>> => Range(q.collections_to_query) \subseteq registry)

\* C10 witness: a question with no sources was answered from a registry of
\* several collections
C10_Witness ==
    /\ Queried
    /\ q.sources = <<>>
    /\ Cardinality(registry) >= 2
    /\ q.outcome = "answer"

\* the positions of the calls of one kind among the calls of the last question
CallsOf(op) == {k \in 1..Len(q.calls) : q.calls[k].op = op}

\* C11: for each question the embedding call is made exactly once, it comes
\* before every collection query, and every collection query is given the
\* vector that call returned, however many collections are queried.
C11_SingleEmbedding ==
    q.outcome # "none" =>
        /\ Cardinality(CallsOf("embed")) = 1
        /\ q.calls[1].op = "embed"
        /\ (q.qfault = "embed" => CallsOf("query") = {})
        /\ \A k \in CallsOf("query") :
              /\ k > 1
              /\ q.calls[k].embedding = q.calls[1].embedding
              /\ q.calls[k].embedding = q.embedding

\* C11 witness: a question that queried several collections
C11_Witness ==
    /\ q.outcome = "answer"
    /\ Cardinality(CallsOf("query")) >= 2
    /\ q.embedding = "v2"

\* the hits the store returns to the last question for the collection at
\* position k of the collections queried
HitsOf(k) ==
    LET c == q.collections_to_query[k]
    IN  IF c = q.qfault THEN <<>> ELSE Hits(store[c], q.embedding, q.n_results)

\* the number of hits returned for the collections before position k
HitsBefore(k) ==
    HitCount(q.collections_to_query, 1) - HitCount(q.collections_to_query, k)

\* C12: the fused context holds one block per hit returned; the block of hit
\* j of the k-th collection queried stands right after the blocks of all
\* collections queried before it and of the hits ranked before it, so blocks
\* follow collection order, then rank order, and are never interleaved.
C12_ContextOrder ==
    Queried =>
        /\ Len(q.all_context) = HitCount(q.collections_to_query, 1)
        /\ \A k \in 1..Len(q.collections_to_query) :
              \A j \in 1..Len(HitsOf(k)) :
                  q.all_context[HitsBefore(k) + j]
                      = ContextBlock(HitsOf(k)[j], q.collections_to_query[k])

\* C12 witness: two different collections returned two hits each
C12_Witness ==
    /\ Queried
    /\ Len(q.collections_to_query) >= 2
    /\ q.collections_to_query[1] # q.collections_to_query[2]
    /\ Len(HitsOf(1)) >= 2
    /\ Len(HitsOf(2)) >= 2
    /\ q.all_context[1] # q.all_context[2]
    /\ q.outcome = "answer"

\* C13: the source list printed with an answer has exactly one line for each
\* distinct citation the hits produced: none is printed twice and none is
\* missing.
C13_SourcesDeduplicated ==
    q.outcome = "answer" =>
        /\ DOMAIN q.printed = Range(q.all_sources)
        /\ \A c \in Range(q.all_sources) : q.printed[c] = 1

\* C13 witness: an answer whose hits produced the same citation twice and
\* another citation besides
C13_Witness ==
    /\ q.outcome = "answer"
    /\ \E j, k \in 1..Len(q.all_sources) : j # k /\ q.all_sources[j] = q.all_sources[k]
    /\ Cardinality(Range(q.all_sources)) >= 2

\* C14: when the collections queried return no hit at all, the question
\* ends with the "no relevant information" message and the generation call
\* is not made; the generation call is made only with a non-empty fused
\* context.
C14_NoInfoShortCircuit ==
    Queried =>
        /\ (HitCount(q.collections_to_query, 1) = 0 =>
               /\ q.outcome = "no_info"
               /\ CallsOf("generate") = {})
        /\ (CallsOf("generate") # {} =>
               /\ q.all_context # <<>>
               /\ HitCount(q.collections_to_query, 1) > 0)

\* C14 witness: a registered, empty collection was queried without failure
\* and the question ended with "no relevant information"
C14_Witness ==
    /\ Queried
    /\ q.collections_to_query # <<>>
    /\ q.qfault = "none"
    /\ \A k \in 1..Len(q.collections_to_query) :
          store[q.collections_to_query[k]] = <<>>
    /\ q.outcome = "no_info"

\* what C15 says of every outcome: an answer comes with the generated text
\* and a non-empty deduplicated source list, and "no relevant information"
\* is reported without a generation call
ReportedOutcome ==
    /\ q.outcome \in {"answer", "no_info", "crash"}
    /\ (q.outcome = "answer" =>
           /\ CallsOf("generate") # {}
           /\ DOMAIN q.printed = Range(q.all_sources)
           /\ DOMAIN q.printed # {}
           /\ \A c \in DOMAIN q.printed : q.printed[c] = 1)
    /\ (q.outcome = "no_info" => CallsOf("generate") = {})

LegitimatelyEmpty ==
    /\ Queried
    /\ q.collections_to_query # <<>>
    /\ q.qfault \notin Range(q.collections_to_query)
    /\ \A k \in 1..Len(q.collections_to_query) : HitsOf(k) = <<>>

\* the store query failed on every collection queried for the last question
QueriesFailed ==
    /\ Queried
    /\ q.collections_to_query # <<>>
    /\ Range(q.collections_to_query) = {q.qfault}

\* C16: the outcome reported when the collections queried hold no hit (the
\* "no relevant information" message) is not the outcome reported when the
\* store query failed on the collections queried.
C16_EmptyDistinguishableFromFailure ==
    /\ (LegitimatelyEmpty => q.outcome = "no_info")
    /\ (QueriesFailed => q.outcome # "no_info")

\* the last operation was process_data of a connector on its own
NormalizeCalled == call.op = "process_data"

\* C17: process_data of the Drive and Slack connectors raises for no
\* sequence of raw records and returns one Document per raw record, also for
\* records with an absent id, an empty owners list or an unparseable
\* timestamp.
C17_NormalizeNeverRaises ==
    NormalizeCalled =>
        /\ ~call.result.raised
        /\ Len(call.result.value) = Len(call.data)

\* the records of one kind a fetch returned for the source at position k
RecordsOf(type, k) ==
    {j \in 1..Len(call.value) : call.value[j].type = type /\ call.value[j].source = k}

\* C18: one fetch call returns at most the caller's maximum number of
\* records and, when the source holds at least that many, exactly that many,
\* whatever the page size of the API; Drive makes no request after the
\* maximum is reached.  For GitHub the maximum is counted per repository, on
\* the issues.
C18_FetchReturnsUpToMaximum ==
    /\ (call.op = "fetch_data" /\ call.connector = "drive" =>
           /\ Len(call.value) <= call.max
           /\ (call.held >= call.max => Len(call.value) = call.max)
           /\ call.requests <= call.max)
    /\ (call.op = "fetch_data" /\ call.connector = "github" =>
           \A k \in 1..Len(call.sources) :
               call.sources[k].status = "ok" =>
                   /\ Cardinality(RecordsOf("issue", k)) <= call.max
                   /\ (call.sources[k].held >= call.max =>
                          Cardinality(RecordsOf("issue", k)) = call.max))

\* a fetch over several repositories or channels was the last operation
FetchedSources ==
    call.op = "fetch_data" /\ call.connector \in {"github", "slack"}

\* the positions, among the records returned, of those of the source at
\* position k
RecordsFrom(k) == {j \in 1..Len(call.value) : call.value[j].source = k}

\* C19: a failure while fetching one repository or channel does not abort
\* the fetch: every repository or channel whose requests succeed, before or
\* after a failing one, has all its records in the result (for a
\* repository its own record, its README and its first page of issues; for
\* a channel its first page of messages), and the records follow the order
\* of the repositories or channels.
C19_FetchFaultIsolation ==
    FetchedSources =>
        /\ \A k \in 1..Len(call.sources) :
              call.sources[k].status = "ok" =>
                  LET page == Min(Min(call.max, call.limit), call.sources[k].held)
                  IN  IF call.connector = "github"
                      THEN /\ Cardinality(RecordsOf("repository", k)) = 1
                           /\ Cardinality(RecordsOf("readme", k)) = 1
                           /\ Cardinality(RecordsOf("issue", k)) = page
                      ELSE Cardinality(RecordsOf("message", k)) = page
        /\ \A j1, j2 \in 1..Len(call.value) :
              j1 < j2 => call.value[j1].source <= call.value[j2].source

\* C19 witness: of three repositories the second raised, and the records of
\* the first and the third were returned
C19_Witness ==
    /\ FetchedSources
    /\ call.connector = "github"
    /\ Len(call.sources) = 3
    /\ call.sources[2].status = "error"
    /\ RecordsFrom(2) = {}
    /\ RecordsOf("issue", 1) # {}
    /\ RecordsOf("issue", 3) # {}

\* C20: authenticate raises when the required credential is missing
\* (Drive: FileNotFoundError for the credentials file; Slack: ValueError for
\* the token) and returns False, without raising, for every other
\* authentication failure.
C20_AuthenticateRaisesOrFalse ==
    call.op = "authenticate" =>
        /\ (~call.credential =>
               /\ call.result.raised
               /\ call.result.error = IF call.connector = "drive"
                                      THEN "FileNotFoundError" ELSE "ValueError")
        /\ (call.credential /\ call.result.value # "True" =>
               /\ ~call.result.raised
               /\ call.result.value = "False")

\* the fields a Document can carry its textual payload in
PayloadFields == {"message", "content"}

\* C21: every Document process_data of a connector returns carries an "id"
\* and a "source" tag, and its textual payload field is present (the empty
\* string when the source has no text).
C21_DocumentHasIdSourcePayload ==
    (call.op = "process_data" /\ ~call.result.raised) =>
        \A k \in 1..Len(call.result.value) :
            LET d == call.result.value[k]
            IN  /\ "id" \in DOMAIN d
                /\ "source" \in DOMAIN d
                /\ \E f \in PayloadFields : f \in DOMAIN d /\ d[f].t = "str"

\* the strings a display text is filled with
TextValues(document) ==
    IF document.tmpl = "json"
    THEN {document.fields[f].v : f \in DOMAIN document.fields}
    ELSE {document[f].v : f \in (DOMAIN document) \ {"tmpl"}}

\* the strings a context block prints besides its fixed words
BlockValues(block) == {block.a, block.b} \cup TextValues(block.content)

\* the stored entries of the Document of scenario A
ScenarioAEntries ==
    {k \in 1..Len(store["github_knowledge"]) :
        store["github_knowledge"][k].id = DOC_A["id"].v}

\* C22: after the Document of scenario A is ingested into github_knowledge
\* its stored display text contains the Document's body, and a question with
\* sources "github" that hits it has a context block citing gh-1 and ends
\* with an answer.
C22_ScenarioA ==
    /\ \A k \in ScenarioAEntries :
          DOC_A["body"].v \in TextValues(store["github_knowledge"][k].document)
    /\ (/\ Queried
        /\ Range(q.sources) = {"github"}
        /\ q.qfault = "none"
        /\ ScenarioAEntries # {}) =>
           /\ \E j \in 1..Len(q.all_context) :
                 DOC_A["id"].v \in BlockValues(q.all_context[j])
           /\ q.outcome = "answer"

\* two collections exist, e is empty and c is not, and the last question
\* named no sources and met no fault
ScenarioB(e, c) ==
    /\ Queried
    /\ q.sources = <<>>
    /\ q.qfault = "none"
    /\ registry = {e, c}
    /\ store[e] = <<>>
    /\ store[c] # <<>>

\* C23: when two collections exist and one is empty, a question with no
\* source filter queries both; the fused context holds exactly the blocks
\* of the hits of the non-empty collection, the source list exactly their
\* citations, and the question ends with an answer.
C23_ScenarioB ==
    \A e, c \in Collections :
        ScenarioB(e, c) =>
            LET hits == Hits(store[c], q.embedding, q.n_results)
            IN  /\ Range(QueriedCollections(q.calls)) = {e, c}
                /\ Len(QueriedCollections(q.calls)) = 2
                /\ q.all_context = [k \in 1..Len(hits) |-> ContextBlock(hits[k], c)]
                /\ q.shown = {Citation(hits[k], c) : k \in 1..Len(hits)}
                /\ DOMAIN q.printed = q.shown
                /\ q.outcome = "answer"

\* C23 witness: the empty collection is the one queried first
C23_Witness ==
    \E e, c \in Collections :
        /\ ScenarioB(e, c)
        /\ q.collections_to_query = <<e, c>>
        /\ q.outcome = "answer"

\* the source tags process_connector_data has a template for
RecognizedTags == {"github", "google drive"}

\* C24: every submitted Document with a recognized source tag is rendered
\* with that tag's template, and every Document whose tag is unrecognized
\* or absent is rendered by the one fallback formatter, the dump of its
\* fields.
C24_TemplateByTag ==
    \A k \in 1..Len(ing.submitted) :
        LET tag == SourceTag(ing.batch[k])
            tmpl == ing.submitted[k].document.tmpl
        IN  IF tag \in RecognizedTags THEN tmpl = tag ELSE tmpl = "json"

\* C25: the session gives at most five answers, and a question that ends
\* with "no relevant information" leaves the session running, so that the
\* next question can be asked.
C25_NoInfoKeepsSession ==
    [][/\ i' <= LoopLimit
       /\ (asked' = asked + 1 /\ q'.outcome = "no_info") => session' = "running"]_vars

\* C26: for one question no collection is queried twice, and no hit is
\* added twice to the fused context, also when the sources given name the
\* same source more than once.
C26_CollectionQueriedOnce ==
    Queried =>
        /\ \A j, k \in 1..Len(QueriedCollections(q.calls)) :
              QueriedCollections(q.calls)[j] = QueriedCollections(q.calls)[k] => j = k
        /\ \A j, k \in 1..Len(q.all_context) :
              q.all_context[j] = q.all_context[k] => j = k

\* whether a stored entry is an issue or a pull request, by the source_type
\* GitHubConnector.process_data gave its Document
IsIssueOrPull(entry) ==
    /\ "source_type" \in DOMAIN entry.metadata
    /\ entry.metadata["source_type"].v \in {"issue", "pull_request"}

\* the retrieved hits of github_knowledge that are issues or pull requests
RetrievedIssues ==
    {h \in UNION {Range(HitsOf(k)) :
                    k \in {j \in 1..Len(q.collections_to_query) :
                             q.collections_to_query[j] = "github_knowledge"}} :
        IsIssueOrPull(h)}

\* C27: a retrieved GitHub issue or pull request has the "type" field in its
\* stored metadata and is formatted with the issue / pull request context
\* block and citation, not as a "GitHub Repository Item".
C27_GitHubTypeStored ==
    Queried =>
        \A h \in RetrievedIssues :
            /\ "type" \in DOMAIN h.metadata
            /\ ContextBlock(h, "github_knowledge").src
                  = "GitHub " \o TypeTitle(h.metadata["source_type"].v)
            /\ Citation(h, "github_knowledge").m = NoMeta

\* whether a raw Slack message is a reply inside a thread
IsThreadReply(item) ==
    /\ item.thread_ts \notin {Absent, ""}
    /\ item.thread_ts # item.id

\* C28: SlackConnector.process_data gives a normalized message a thread_id
\* exactly when the raw message is a reply inside a thread; a message outside
\* any thread and the parent message of a thread get none.
C28_ThreadIdOnlyForReplies ==
    (/\ call.op = "process_data"
     /\ call.connector = "slack"
     /\ ~call.result.raised) =>
        \A k \in 1..Len(call.data) :
            ("thread_id" \in DOMAIN call.result.value[k]) <=> IsThreadReply(call.data[k])

\* C29: once authenticate was called on a Drive or Slack connector its
\* authenticated flag is True exactly when the most recent authenticate call
\* returned True, and fetch_data raises "Not authenticated" unless the most
\* recent authenticate call returned True.
C29_AuthenticatedFollowsLastCall ==
    /\ \A c \in DOMAIN objects :
          objects[c].returned # "none" =>
              (objects[c].authenticated <=> objects[c].returned = "True")
    /\ call.op = "fetch_data" =>
          (objects[call.connector].returned # "True" => call.result.raised)

\* every connector name: the ones config.json lists and the unknown one
AllConfigNames == Range(ConfigOrder)

\* what one ConfigManager operation does to the enabled flags
EnabledFlagsStep ==
    /\ call'.op \in {"update_connector_config", "enable_connector", "disable_connector"} =>
          LET c == call'.connector_name
              u == call'.config_updates
          IN  /\ IsConnectorEnabled(config', c) =
                    IF "enabled" \in DOMAIN u THEN u["enabled"]
                    ELSE IsConnectorEnabled(config, c)
              /\ \A d \in AllConfigNames \ {c} :
                    IsConnectorEnabled(config', d) = IsConnectorEnabled(config, d)
    /\ call'.op = "auto_configure_connectors" =>
          \A d \in AllConfigNames :
              IsConnectorEnabled(config, d) = "True" =>
                  IsConnectorEnabled(config', d) = "True"
    /\ Range(GetEnabledConnectors(config')) =
          {d \in AllConfigNames : IsConnectorEnabled(config', d) = "True"}

\* C30: no connector is enabled at the start; enable_connector,
\* disable_connector and update_connector_config with an 'enabled' value
\* make is_connector_enabled(c) that value, an update without one leaves it,
\* and all of them leave the flags of the other connectors as they were;
\* auto_configure_connectors turns no enabled connector off; and
\* get_enabled_connectors returns exactly the connectors for which
\* is_connector_enabled is True.
C30_EnabledFlags ==
    /\ \A d \in AllConfigNames : IsConnectorEnabled(config, d) = "False"
    /\ [][EnabledFlagsStep]_vars

\* C30 witness: auto_configure_connectors ran without a Slack token while
\* slack and the unknown connector were enabled; both are still enabled and
\* teams was turned on
C30_Witness ==
    /\ call.op = "auto_configure_connectors"
    /\ ~call.env.slack
    /\ call.env.teams
    /\ IsConnectorEnabled(call.before, "slack") = "True"
    /\ IsConnectorEnabled(call.before, "teams") = "False"
    /\ call.result = <<"slack", "teams", UnknownConnector>>
    /\ "token_file" \in DOMAIN config[UnknownConnector]

====
